---------------------------- MODULE Spec2Model ----------------------------
(***************************************************************************)
(* A model of the support layer of pyimg:                                  *)
(*   lib/utils/downloads.py  resolve_path_or_url, get_cached_url_path,     *)
(*                           check_huggingface_url_authorized              *)
(*   lib/schema.py           LazyLoadingImage, ControlInput                *)
(*                                                                         *)
(* Strings the code inspects (URLs, file names) are sequences of tokens,   *)
(* each token a piece of the string; startswith, split and re.sub are      *)
(* computed on the tokens.  A path is a record of its directory (a         *)
(* sequence of components) and its file name (a sequence of tokens).       *)
(***************************************************************************)
EXTENDS Integers, Sequences, FiniteSets, TLC

VARIABLES
    files,      \* the file system: path -> content, for the files that exist
    dirs,       \* the directories that exist
    pc,         \* per thread: where it stands in the call it runs
    arg,        \* per thread: the call's arguments
    loc,        \* per thread: the call's local variables
    out,        \* per thread: the call's return value or exception
    net,        \* per thread: the requests the call has issued
    pre,        \* per thread: what the cache held when the call began
    calls,      \* calls begun so far
    failed,     \* history: the destinations whose last download failed
    obj,        \* the LazyLoadingImage instance, or Absent
    loads,      \* file opens and HTTP fetches made for the instance
    lastOp      \* the last schema.py operation and its outcome

cacheVars == <<files, dirs, pc, arg, loc, out, net, pre, calls, failed>>
imageVars == <<obj, loads, lastOp>>
vars == <<files, dirs, pc, arg, loc, out, net, pre, calls, failed, obj, loads, lastOp>>

None == "None"

-----------------------------------------------------------------------------
(* Bounds *)

MaxCalls == 2
MaxLoads == 3

-----------------------------------------------------------------------------
(* Strings as token sequences *)

\* str.startswith(prefix)
StartsWith(s, prefix) ==
    /\ Len(s) >= Len(prefix)
    /\ SubSeq(s, 1, Len(prefix)) = prefix

\* The separators of str.split("/"): the token "/" and the slashes of "://".
SLASHES == {"/", "://"}

\* url.split("/")[-1]: what follows the last slash (the whole string when
\* there is none)
SplitLast(s) ==
    LET idx == {i \in 1..Len(s) : s[i] \in SLASHES}
        last == IF idx = {} THEN 0 ELSE CHOOSE i \in idx : \A j \in idx : j <= i
    IN  SubSeq(s, last + 1, Len(s))

\* The character class of re.sub('[*<>:"|?]', "_", filename)
ILLEGAL == {"*", "<", ">", ":", "\"", "|", "?"}

\* re.sub('[*<>:"|?]', "_", filename)
safe_filename(filename) ==
    [i \in 1..Len(filename) |->
        IF filename[i] \in ILLEGAL THEN "_" ELSE filename[i]]

HTTPS_PREFIX == <<"https", "://">>
HTTP_PREFIX == <<"http", "://">>
HF_PREFIX == <<"https", "://", "huggingface.co">>
HF_PREFIX_SLASH == <<"https", "://", "huggingface.co", "/">>

-----------------------------------------------------------------------------
(* The inputs the model draws from *)

URL_PLAIN == <<"https", "://", "example.com", "/", "m.bin">>
URL_QUERY == <<"http", "://", "example.com", "/", "m.bin", "?", "v">>
URL_HF == <<"https", "://", "huggingface.co", "/", "org", "/", "w.bin", "?", "v">>
URL_HF_LIKE == <<"https", "://", "huggingface.co", ".evil.io", "/", "m.bin">>
LOCAL_PATH == <<"data", "/", "m.bin">>

Refs == {URL_PLAIN, URL_QUERY, URL_HF, URL_HF_LIKE, LOCAL_PATH}
Categories == {None, "", "weights"}
Bodies == {"v1", "v2"}
Threads == {"t1", "t2"}
Tokens == {None, "hf_token"}

\* Python truthiness of an optional string: None and "" are false
Truthy(v) == v # None /\ v # ""

-----------------------------------------------------------------------------
(* Paths *)

\* get_cache_dir(): the process-wide cache root
get_cache_dir == <<"cache">>

\* the working directory os.path.abspath resolves against
CWD == <<"cwd">>

\* os.path.abspath(path_or_url), for a relative path
AbsPath(ref) == [dir |-> CWD, name |-> ref]

\* dest = get_cache_dir(); if category: dest = os.path.join(dest, category)
DestDir(category) ==
    IF Truthy(category) THEN Append(get_cache_dir, category) ELSE get_cache_dir

\* dest_path = os.path.join(dest, safe_filename)
DestPath(url, category) ==
    [dir |-> DestDir(category), name |-> safe_filename(SplitLast(url))]

\* old_dest_path = os.path.join(dest, filename)
OldDestPath(url, category) ==
    [dir |-> DestDir(category), name |-> SplitLast(url)]

\* os.path.exists(path), for a file path
Exists(path) == path \in DOMAIN files

\* os.makedirs(dest, exist_ok=True): the directory and its parents
MakeDirs(d) == dirs \cup {SubSeq(d, 1, n) : n \in 1..Len(d)}

\* os.rename(old, new): new takes old's content, old is gone
Renamed(old, new) ==
    [q \in (DOMAIN files \ {old}) \cup {new} |->
        IF q = new THEN files[old] ELSE files[q]]

\* open(path, "wb") ... f.write(content): the file holds content
Written(path, content) ==
    [q \in DOMAIN files \cup {path} |-> IF q = path THEN content ELSE files[q]]

\* huggingface_cached_path(url): where the provider's own cache keeps the file
HfPath(url) == [dir |-> <<"hf_hub">>, name |-> SplitLast(url)]

-----------------------------------------------------------------------------
(* Threads: one call of downloads.py at a time, step by step *)

NoPath == [dir |-> <<>>, name |-> <<>>]
NoLoc == [provider |-> None, resp |-> None, token |-> None, status |-> 0]
NoOut == [kind |-> None, path |-> NoPath, exc |-> None]
NoNet == [gets |-> 0, heads |-> 0, headers |-> <<>>]
NoPre == [dest |-> FALSE, legacy |-> FALSE]
NoArg == [op |-> None, url |-> <<>>, category |-> None]

Ready(t) == pc[t] \in {"idle", "returned", "raised"}

\* return path (NoPath for a function that returns None)
Return(t, path) ==
    /\ pc' = [pc EXCEPT ![t] = "returned"]
    /\ out' = [out EXCEPT ![t] = [kind |-> "return", path |-> path, exc |-> None]]

Raise(t, exc) ==
    /\ pc' = [pc EXCEPT ![t] = "raised"]
    /\ out' = [out EXCEPT ![t] = [kind |-> "raise", path |-> NoPath, exc |-> exc]]

Goto(t, label) ==
    /\ pc' = [pc EXCEPT ![t] = label]
    /\ UNCHANGED out

dest_path(t) == DestPath(arg[t].url, arg[t].category)
old_dest_path(t) == OldDestPath(arg[t].url, arg[t].category)

\* resolve_path_or_url(path_or_url, category), up to the first step of
\* get_cached_url_path that touches the provider or the file system
resolve_path_or_url(t, ref, category) ==
    /\ Ready(t)
    /\ calls < MaxCalls
    /\ calls' = calls + 1
    /\ arg' = [arg EXCEPT ![t] = [op |-> "resolve", url |-> ref, category |-> category]]
    /\ loc' = [loc EXCEPT ![t] = NoLoc]
    /\ net' = [net EXCEPT ![t] = NoNet]
    /\ pre' = [pre EXCEPT ![t] =
            [dest |-> Exists(DestPath(ref, category)),
             legacy |-> Exists(OldDestPath(ref, category))]]
    /\ IF StartsWith(ref, HTTPS_PREFIX) \/ StartsWith(ref, HTTP_PREFIX)
       THEN /\ pc' = [pc EXCEPT ![t] =
                    IF StartsWith(ref, HF_PREFIX) THEN "hf" ELSE "makedirs"]
            /\ out' = [out EXCEPT ![t] = NoOut]
       ELSE Return(t, AbsPath(ref))
    /\ UNCHANGED <<files, dirs, failed, imageVars>>

\* HfDelegate catching OSError only
HfDelegate_OnlyOSError(t, outcome) ==
    /\ pc[t] = "hf"
    /\ loc' = [loc EXCEPT ![t].provider = outcome]
    /\ IF outcome = "ok"
       THEN Return(t, HfPath(arg[t].url))
       ELSE IF outcome = "OSError"
            THEN Goto(t, "makedirs")
            ELSE Raise(t, outcome)
    /\ UNCHANGED <<files, dirs, arg, net, pre, calls, failed, imageVars>>

\* try: return huggingface_cached_path(url)  except (OSError, ValueError): pass
HfDelegate(t, outcome) ==
    /\ pc[t] = "hf"
    /\ loc' = [loc EXCEPT ![t].provider = outcome]
    /\ IF outcome = "ok"
       THEN Return(t, HfPath(arg[t].url))
       ELSE IF outcome \in {"OSError", "ValueError"}
            THEN Goto(t, "makedirs")
            ELSE Raise(t, outcome)
    /\ UNCHANGED <<files, dirs, arg, net, pre, calls, failed, imageVars>>

\* filename, dest, os.makedirs(dest, exist_ok=True), safe_filename, dest_path
MakeDest(t) ==
    /\ pc[t] = "makedirs"
    /\ dirs' = MakeDirs(DestDir(arg[t].category))
    /\ Goto(t, "exists")
    /\ UNCHANGED <<files, arg, loc, net, pre, calls, failed, imageVars>>

\* CheckDest without the cache hit: the destination is never found
CheckDest_NoHit(t) ==
    /\ pc[t] = "exists"
    /\ Goto(t, "legacy")
    /\ UNCHANGED <<files, dirs, arg, loc, net, pre, calls, failed, imageVars>>

\* if os.path.exists(dest_path): return dest_path
CheckDest(t) ==
    /\ pc[t] = "exists"
    /\ IF Exists(dest_path(t))
       THEN Return(t, dest_path(t))
       ELSE Goto(t, "legacy")
    /\ UNCHANGED <<files, dirs, arg, loc, net, pre, calls, failed, imageVars>>

\* old_dest_path = ...; if os.path.exists(old_dest_path):
CheckLegacy(t) ==
    /\ pc[t] = "legacy"
    /\ IF Exists(old_dest_path(t))
       THEN Goto(t, "rename")
       ELSE Goto(t, "get")
    /\ UNCHANGED <<files, dirs, arg, loc, net, pre, calls, failed, imageVars>>

\* RenameLegacy copying the legacy file instead of moving it
RenameLegacy_Copy(t) ==
    /\ pc[t] = "rename"
    /\ IF Exists(old_dest_path(t))
       THEN /\ files' = Written(dest_path(t), files[old_dest_path(t)])
            /\ failed' = failed \ {dest_path(t)}
            /\ Return(t, dest_path(t))
       ELSE /\ Raise(t, "FileNotFoundError")
            /\ UNCHANGED <<files, failed>>
    /\ UNCHANGED <<dirs, arg, loc, net, pre, calls, imageVars>>

\* os.rename(old_dest_path, dest_path); return dest_path
RenameLegacy(t) ==
    /\ pc[t] = "rename"
    /\ IF Exists(old_dest_path(t))
       THEN /\ files' = Renamed(old_dest_path(t), dest_path(t))
            /\ failed' = failed \ {dest_path(t)}
            /\ Return(t, dest_path(t))
       ELSE /\ Raise(t, "FileNotFoundError")
            /\ UNCHANGED <<files, failed>>
    /\ UNCHANGED <<dirs, arg, loc, net, pre, calls, imageVars>>

\* HttpGet with the destination opened before the request is made: a failed
\* request leaves an empty file
HttpGet_OpenFirst(t, outcome) ==
    /\ pc[t] = "get"
    /\ net' = [net EXCEPT ![t].gets = @ + 1]
    /\ files' = Written(dest_path(t), "")
    /\ IF outcome \in Bodies
       THEN /\ loc' = [loc EXCEPT ![t].resp = outcome]
            /\ Goto(t, "open")
            /\ UNCHANGED failed
       ELSE /\ Raise(t, outcome)
            /\ failed' = failed \cup {dest_path(t)}
            /\ UNCHANGED loc
    /\ UNCHANGED <<dirs, arg, pre, calls, imageVars>>

\* r = requests.get(url): a response with some body, or a network error
HttpGet(t, outcome) ==
    /\ pc[t] = "get"
    /\ net' = [net EXCEPT ![t].gets = @ + 1]
    /\ IF outcome \in Bodies
       THEN /\ loc' = [loc EXCEPT ![t].resp = outcome]
            /\ Goto(t, "open")
            /\ UNCHANGED failed
       ELSE /\ Raise(t, outcome)
            /\ failed' = failed \cup {dest_path(t)}
            /\ UNCHANGED loc
    /\ UNCHANGED <<files, dirs, arg, pre, calls, imageVars>>

\* with open(dest_path, "wb") as f: the file is created or truncated
OpenDest(t) ==
    /\ pc[t] = "open"
    /\ files' = Written(dest_path(t), "")
    /\ failed' = failed \ {dest_path(t)}
    /\ Goto(t, "write")
    /\ UNCHANGED <<dirs, arg, loc, net, pre, calls, imageVars>>

\* WriteDest that leaves a file another writer has already filled
WriteDest_KeepExisting(t) ==
    /\ pc[t] = "write"
    /\ files' = IF Exists(dest_path(t)) /\ files[dest_path(t)] # ""
                THEN files
                ELSE Written(dest_path(t), loc[t].resp)
    /\ failed' = failed \ {dest_path(t)}
    /\ Return(t, dest_path(t))
    /\ UNCHANGED <<dirs, arg, loc, net, pre, calls, imageVars>>

\* f.write(r.content); return dest_path
WriteDest(t) ==
    /\ pc[t] = "write"
    /\ files' = Written(dest_path(t), loc[t].resp)
    /\ failed' = failed \ {dest_path(t)}
    /\ Return(t, dest_path(t))
    /\ UNCHANGED <<dirs, arg, loc, net, pre, calls, imageVars>>

\* check_huggingface_url_authorized(url), up to the HEAD request
check_huggingface_url_authorized(t, url, token) ==
    /\ Ready(t)
    /\ calls < MaxCalls
    /\ calls' = calls + 1
    /\ arg' = [arg EXCEPT ![t] = [op |-> "check", url |-> url, category |-> None]]
    /\ pre' = [pre EXCEPT ![t] = NoPre]
    /\ IF ~StartsWith(url, HF_PREFIX_SLASH)
       THEN /\ Return(t, NoPath)
            /\ loc' = [loc EXCEPT ![t] = NoLoc]
            /\ net' = [net EXCEPT ![t] = NoNet]
       ELSE /\ pc' = [pc EXCEPT ![t] = "head"]
            /\ out' = [out EXCEPT ![t] = NoOut]
            /\ loc' = [loc EXCEPT ![t] = [NoLoc EXCEPT !.token = token]]
            /\ net' = [net EXCEPT ![t] =
                    [NoNet EXCEPT !.headers =
                        IF token # None THEN <<"authorization", "Bearer", token>>
                        ELSE <<>>]]
    /\ UNCHANGED <<files, dirs, failed, imageVars>>

UNAUTHORIZED == 401

\* the exception class check_huggingface_url_authorized raises
HuggingFaceAuthorizationError == "HuggingFaceAuthorizationError"
Statuses == {200, 401, 403, 404}

\* HttpHead testing for 403 instead of 401
HttpHead_403(t, exc, status_code) ==
    /\ pc[t] = "head"
    /\ net' = [net EXCEPT ![t].heads = @ + 1]
    /\ IF exc = None
       THEN /\ loc' = [loc EXCEPT ![t].status = status_code]
            /\ IF status_code = 403
               THEN Raise(t, HuggingFaceAuthorizationError)
               ELSE Return(t, NoPath)
       ELSE /\ Raise(t, exc)
            /\ UNCHANGED loc
    /\ UNCHANGED <<files, dirs, arg, pre, calls, failed, imageVars>>

\* response = requests.head(...); if response.status_code == 401: raise ...
\* (exc: the request itself failed, None when a response came back)
HttpHead(t, exc, status_code) ==
    /\ pc[t] = "head"
    /\ net' = [net EXCEPT ![t].heads = @ + 1]
    /\ IF exc = None
       THEN /\ loc' = [loc EXCEPT ![t].status = status_code]
            /\ IF status_code = UNAUTHORIZED
               THEN Raise(t, HuggingFaceAuthorizationError)
               ELSE Return(t, NoPath)
       ELSE /\ Raise(t, exc)
            /\ UNCHANGED loc
    /\ UNCHANGED <<files, dirs, arg, pre, calls, failed, imageVars>>

-----------------------------------------------------------------------------
(* schema.py: LazyLoadingImage *)

\* The constructor's arguments the model draws from.  An absent url is the
\* empty string of tokens: None and "" are both false to `not url`.
NoUrl == <<>>
IMG_URL == <<"https", "://", "example.com", "/", "a.png">>
FTP_URL == <<"ftp", "://", "example.com", "/", "a.png">>
NO_HOST_URL == <<"https", "://", "/", "a.png">>
BAD_PORT_URL == <<"http", "://", "example.com", ":", "x">>

Filepaths == {None, "", "in.png", "gone.png"}
Urls == {NoUrl, IMG_URL, FTP_URL, NO_HOST_URL, BAD_PORT_URL}
Imgs == {None, "PIL"}
B64s == {None, "iVBORw0KGgo=", "%%%"}

\* the files os.path.exists finds
ExistingImages == {"in.png"}
\* the payloads Image.open can decode
DecodableB64 == {"iVBORw0KGgo="}

TruthyUrl(url) == url # NoUrl

\* urllib3.util.parse_url(url): scheme and host, or LocationValueError (here:
\* a port that is not a number)
parse_url(url) ==
    LET colon == {i \in 1..Len(url) : url[i] = ":"}
        hasScheme == Len(url) >= 2 /\ url[2] = "://"
        hostAt == IF hasScheme THEN 3 ELSE 1
    IN  IF \E i \in colon : i = Len(url) \/ url[i + 1] \notin {"80", "443", "8080"}
        THEN [exc |-> "LocationValueError", scheme |-> None, host |-> None]
        ELSE [exc |-> None,
              scheme |-> IF hasScheme THEN url[1] ELSE None,
              host |-> IF Len(url) >= hostAt /\ url[hostAt] \notin SLASHES
                       THEN url[hostAt] ELSE None]

\* The names __init__ can read: its parameters, and what schema.py imports or
\* defines at module level, and the builtins it calls
InitScope == {"self", "filepath", "url", "img", "b64"}
SchemaGlobals ==
    {"base64", "hashlib", "io", "json", "logging", "os", "random", "datetime",
     "timezone", "Enum", "BytesIO", "TYPE_CHECKING", "Any", "List", "Literal",
     "cast", "BaseModel", "ConfigDict", "Field", "GetCoreSchemaHandler",
     "field_validator", "model_validator", "core_schema", "Self", "config",
     "logger", "InvalidUrlError", "LazyLoadingImage", "sum", "bool"}
Defined(name) == name \in InitScope \cup SchemaGlobals

\* The operands of sum([bool(filepath), bool(url), bool(img), bool(u64)])
SumOperands == <<"filepath", "url", "img", "u64">>

\* What the class body of LazyLoadingImage defines.  save_image_as_base64,
\* load_image_from_base64, as_base64, as_pillow, __str__ and __repr__ are
\* indented into the body of __get_pydantic_core_schema, so the class has
\* none of them.
ClassAttrs ==
    {"__init__", "__getattr__", "__setstate__", "_load_img",
     "__get_pydantic_core_schema"}

Absent == [alive |-> FALSE, lazy_filepath |-> None, lazy_url |-> NoUrl, img |-> None]

Instance(filepath, url, img) ==
    [alive |-> TRUE, lazy_filepath |-> filepath, lazy_url |-> url, img |-> img]

Failed(exc, msg) == [exc |-> exc, msg |-> msg, obj |-> Absent]

\* LazyLoadingImage.__init__(filepath=, url=, img=, b64=): the exception it
\* raises, or the instance it leaves
LazyLoadingImage_init(filepath, url, img, b64) ==
    LET Bool(name) ==
            CASE name = "filepath" -> Truthy(filepath)
              [] name = "url" -> TruthyUrl(url)
              [] name = "img" -> Truthy(img)
              [] name = "b64" -> Truthy(b64)
              [] OTHER -> FALSE
        given == Cardinality({i \in 1..Len(SumOperands) : Bool(SumOperands[i])})
        parsed == parse_url(url)
    IN  IF ~Truthy(filepath) /\ ~TruthyUrl(url) /\ ~Truthy(img) /\ ~Truthy(b64)
        THEN Failed("ValueError", "You must specify a url or filepath or img or base64 string")
        ELSE IF \E i \in 1..Len(SumOperands) : ~Defined(SumOperands[i])
        THEN Failed("NameError", "name is not defined")
        ELSE IF given > 1
        THEN Failed("ValueError", "You cannot multiple input methods")
        ELSE IF Truthy(filepath) /\ filepath \notin ExistingImages
        THEN Failed("FileNotFoundError", "File does not exists")
        ELSE IF TruthyUrl(url) /\ parsed.exc = "LocationValueError"
        THEN Failed("InvalidUrlError", "Invalid url")
        \* a scheme other than http/https, or no host: msg is built, nothing
        \* is raised
        ELSE IF Truthy(b64) /\ "load_image_from_base64" \notin ClassAttrs
        \* self.load_image_from_base64 goes to __getattr__, whose _load_img
        \* reads self._img before __init__ has set it
        THEN Failed("AttributeError", "")
        ELSE IF Truthy(b64) /\ b64 \notin DecodableB64
        THEN Failed("UnidentifiedImageError", "cannot identify image file")
        ELSE [exc |-> None, msg |-> "",
              obj |-> Instance(filepath, url, IF Truthy(b64) THEN "decoded" ELSE img)]

\* LoadImg without the `if self._img is None` guard: every call loads
LoadImg_NoCache(o, open_, decode, exif) ==
    IF Truthy(o.lazy_filepath)
    THEN IF open_ # "ok"
         THEN [obj |-> o, io |-> 1, exc |-> "OSError"]
         ELSE [obj |-> [o EXCEPT !.img = "file_upright"], io |-> 1, exc |-> None]
    ELSE IF TruthyUrl(o.lazy_url)
    THEN IF open_ # "ok"
         THEN [obj |-> o, io |-> 1, exc |-> "ConnectionError"]
         ELSE [obj |-> [o EXCEPT !.img = "url_upright"], io |-> 1, exc |-> None]
    ELSE [obj |-> o, io |-> 0, exc |-> "ValueError"]

\* _load_img(self): the instance afterwards, the file opens and HTTP fetches
\* made (io), and the exception raised.  open_: what Image.open of the file or
\* requests.get does; decode: what Image.open of the fetched bytes does; exif:
\* what ImageOps.exif_transpose does.
LoadImg(o, open_, decode, exif) ==
    IF o.img # None
    THEN [obj |-> o, io |-> 0, exc |-> None]
    ELSE IF Truthy(o.lazy_filepath)
    THEN IF open_ # "ok"
         THEN [obj |-> o, io |-> 1, exc |-> "OSError"]
         ELSE IF exif # "ok"
         THEN [obj |-> [o EXCEPT !.img = "file_raw"], io |-> 1, exc |-> "ExifError"]
         ELSE [obj |-> [o EXCEPT !.img = "file_upright"], io |-> 1, exc |-> None]
    ELSE IF TruthyUrl(o.lazy_url)
    THEN IF open_ # "ok"
         THEN [obj |-> o, io |-> 1, exc |-> "ConnectionError"]
         ELSE IF decode # "ok"
         THEN [obj |-> o, io |-> 1, exc |-> "UnidentifiedImageError"]
         ELSE IF exif # "ok"
         THEN [obj |-> [o EXCEPT !.img = "url_raw"], io |-> 1, exc |-> "ExifError"]
         ELSE [obj |-> [o EXCEPT !.img = "url_upright"], io |-> 1, exc |-> None]
    ELSE [obj |-> o, io |-> 0, exc |-> "ValueError"]

Outcomes == {"ok", "fail"}

\* LazyLoadingImage(filepath=..., url=..., img=..., b64=...)
Construct(filepath, url, img, b64) ==
    LET r == LazyLoadingImage_init(filepath, url, img, b64)
    IN  /\ lastOp' = [op |-> "__init__", filepath |-> filepath, url |-> url,
                      img |-> img, b64 |-> b64, exc |-> r.exc, msg |-> r.msg]
        /\ obj' = IF r.exc = None THEN r.obj ELSE obj
        /\ loads' = IF r.exc = None THEN 0 ELSE loads
        /\ UNCHANGED cacheVars

\* The states pickle hands to __setstate__: those of an instance with one
\* source, before or after its image was loaded
PickledStates ==
    {Instance("in.png", NoUrl, None), Instance(None, IMG_URL, None),
     Instance(None, NoUrl, "PIL"),
     Instance("in.png", NoUrl, "file_upright"), Instance(None, IMG_URL, "url_upright")}

HasSource(o) == Truthy(o.lazy_filepath) \/ TruthyUrl(o.lazy_url)

\* __setstate__(self, state): self.__dict__.update(state), on the fresh
\* instance unpickling makes
SetState(state) ==
    /\ obj' = state
    /\ loads' = IF HasSource(state) /\ state.img # None THEN 1 ELSE 0
    /\ lastOp' = [op |-> "__setstate__"]
    /\ UNCHANGED cacheVars

\* self._load_img()
Materialize(open_, decode, exif) ==
    LET r == LoadImg(obj, open_, decode, exif)
    IN  /\ obj.alive
        /\ loads + r.io <= MaxLoads
        /\ obj' = r.obj
        /\ loads' = loads + r.io
        /\ lastOp' = [op |-> "_load_img", hit |-> obj.img # None, exc |-> r.exc]
        /\ UNCHANGED cacheVars

\* __getattr__(self, key): key == "_img" raises; else self._load_img() and
\* getattr(self._img, key)
GetAttr(key, open_, decode, exif) ==
    LET r == LoadImg(obj, open_, decode, exif)
    IN  /\ obj.alive
        /\ IF key = "_img"
           THEN /\ lastOp' = [op |-> "__getattr__", key |-> key, hit |-> FALSE,
                              exc |-> "AttributeError"]
                /\ UNCHANGED <<obj, loads>>
           ELSE /\ loads + r.io <= MaxLoads
                /\ obj' = r.obj
                /\ loads' = loads + r.io
                /\ lastOp' = [op |-> "__getattr__", key |-> key,
                              hit |-> obj.img # None, exc |-> r.exc]
        /\ UNCHANGED cacheVars

-----------------------------------------------------------------------------
(* schema.py: ControlInput *)

\* config.CONTROL_CONFIG_SHORTCUTS: the recognized modes
CONTROL_CONFIG_SHORTCUTS == {"canny", "depth"}

STRENGTH_GE == 0
STRENGTH_LE == 1000

Modes == {"canny", "sketchy"}
Images == {None, "imgA"}
Strengths == {-1, 0, 1, 1000, 1001}

\* mode_validator(cls, v)
mode_validator(v) == v \in CONTROL_CONFIG_SHORTCUTS

\* image_raw_validate reading info.data.get("image_raw"), which is not yet in
\* info.data when image_raw is validated: it never raises
image_raw_validate_WrongKey(v, data_image) == ~(None # None /\ v # None)

\* image_raw_validate(cls, v, info): TRUE when it returns v, FALSE when it
\* raises "You cannot specify both image and image_raw".  data_image is
\* info.data.get("image").
image_raw_validate(v, data_image) == ~(data_image # None /\ v # None)

\* strength: float = Field(1, ge=0, le=1000)
strength_valid(v) == v >= STRENGTH_GE /\ v <= STRENGTH_LE

\* ControlInput(mode=, image=, image_raw=, strength=): pydantic validates the
\* fields in the order they are declared and gathers every error
ControlInput(mode, image, image_raw, strength) ==
    LET errors ==
            (IF mode_validator(mode) THEN {} ELSE {"mode"})
            \cup (IF image_raw_validate(image_raw, image) THEN {} ELSE {"image_raw"})
            \cup (IF strength_valid(strength) THEN {} ELSE {"strength"})
    IN  /\ lastOp' = [op |-> "ControlInput", mode |-> mode, image |-> image,
                      image_raw |-> image_raw, strength |-> strength,
                      errors |-> errors, ok |-> errors = {}]
        /\ UNCHANGED <<obj, loads, cacheVars>>


-----------------------------------------------------------------------------
(* The cache at startup: nothing, or files an earlier version left under   *)
(* the unsanitized names                                                    *)

LEGACY_BODY == "v0"

LegacyPaths == {OldDestPath(u, c) : u \in {URL_QUERY, URL_HF}, c \in {None, "weights"}}

InitCache ==
    /\ \E L \in SUBSET LegacyPaths :
          /\ files = [q \in L |-> LEGACY_BODY]
          /\ dirs = UNION {{SubSeq(q.dir, 1, n) : n \in 1..Len(q.dir)} : q \in L}
    /\ pc = [t \in Threads |-> "idle"]
    /\ arg = [t \in Threads |-> NoArg]
    /\ loc = [t \in Threads |-> NoLoc]
    /\ out = [t \in Threads |-> NoOut]
    /\ net = [t \in Threads |-> NoNet]
    /\ pre = [t \in Threads |-> NoPre]
    /\ calls = 0
    /\ failed = {}

InitImage ==
    /\ obj = Absent
    /\ loads = 0
    /\ lastOp = [op |-> None]

Init == InitCache /\ InitImage

\* schema.py touches no cache: its operations start from an empty one
InitSchema ==
    /\ InitCache
    /\ files = <<>>
    /\ InitImage

Step(t) ==
    \/ \E ref \in Refs, category \in Categories : resolve_path_or_url(t, ref, category)
    \/ \E outcome \in {"ok", "OSError", "ValueError"} : HfDelegate(t, outcome)
    \/ MakeDest(t)
    \/ CheckDest(t)
    \/ CheckLegacy(t)
    \/ RenameLegacy(t)
    \/ \E outcome \in Bodies \cup {"ConnectionError"} : HttpGet(t, outcome)
    \/ OpenDest(t)
    \/ WriteDest(t)
    \/ \E url \in Refs, token \in Tokens : check_huggingface_url_authorized(t, url, token)
    \/ \E exc \in {None, "Timeout"}, status_code \in Statuses : HttpHead(t, exc, status_code)

\* One thread: calls run one after another
NextCache == \E t \in {"t1"} : Step(t)

SpecCache == Init /\ [][NextCache]_vars

\* Two threads resolving at once: their steps interleave freely, as nothing
\* in get_cached_url_path takes a lock
RaceRefs == {URL_PLAIN, URL_QUERY}
RaceCategories == {None, "weights"}

Resolve(t) ==
    \/ \E ref \in RaceRefs, category \in RaceCategories :
            resolve_path_or_url(t, ref, category)
    \/ MakeDest(t)
    \/ CheckDest(t)
    \/ CheckLegacy(t)
    \/ RenameLegacy(t)
    \/ \E outcome \in Bodies \cup {"ConnectionError"} : HttpGet(t, outcome)
    \/ OpenDest(t)
    \/ WriteDest(t)

NextRace == \E t \in Threads : Resolve(t)

SpecRace == Init /\ [][NextRace]_vars

\* The operations of schema.py, in any order
NextImage ==
    \/ \E filepath \in Filepaths, url \in Urls, img \in Imgs, b64 \in B64s :
            Construct(filepath, url, img, b64)
    \/ \E state \in PickledStates : SetState(state)
    \/ \E open_ \in Outcomes, decode \in Outcomes, exif \in Outcomes :
            Materialize(open_, decode, exif)
    \/ \E key \in {"_img", "size"}, open_ \in Outcomes, decode \in Outcomes,
          exif \in Outcomes : GetAttr(key, open_, decode, exif)
    \/ \E mode \in Modes, image \in Images, image_raw \in Images,
          strength \in Strengths : ControlInput(mode, image, image_raw, strength)

SpecImage == InitSchema /\ [][NextImage]_vars

-----------------------------------------------------------------------------
(* Properties *)

IsHttp(ref) == StartsWith(ref, HTTPS_PREFIX) \/ StartsWith(ref, HTTP_PREFIX)
Resolving(t) == arg[t].op = "resolve" /\ IsHttp(arg[t].url)
Delegated(t) == loc[t].provider = "ok"
Finished(t) == pc[t] \in {"returned", "raised"}

NumSources(op) ==
    Cardinality({k \in {"filepath", "url", "img", "b64"} :
        CASE k = "filepath" -> Truthy(op.filepath)
          [] k = "url" -> TruthyUrl(op.url)
          [] k = "img" -> Truthy(op.img)
          [] k = "b64" -> Truthy(op.b64)})

InvalidUrl(url) ==
    /\ TruthyUrl(url)
    /\ \/ parse_url(url).exc # None
       \/ parse_url(url).scheme \notin {"http", "https"}
       \/ parse_url(url).host = None

ValidSources(op) ==
    /\ Truthy(op.filepath) => op.filepath \in ExistingImages
    /\ TruthyUrl(op.url) => ~InvalidUrl(op.url)
    /\ Truthy(op.b64) => op.b64 \in DecodableB64

\* C1: a LazyLoadingImage constructed with exactly one source (the path of an
\* existing file, a url, an image or a base64 payload) is created, and with no
\* source or with two or more the constructor raises.
C1_ExactlyOneSource ==
    lastOp.op = "__init__" =>
        /\ (NumSources(lastOp) = 1 /\ ValidSources(lastOp)) => lastOp.exc = None
        /\ NumSources(lastOp) # 1 => lastOp.exc # None

\* C4: a constructor call whose only source is a url that does not parse, or
\* whose scheme is not http/https, or that has no host, raises InvalidUrlError,
\* and no instance ever holds such a url.
C4_InvalidUrlRejected ==
    /\ (lastOp.op = "__init__" /\ NumSources(lastOp) = 1 /\ InvalidUrl(lastOp.url))
            => lastOp.exc = "InvalidUrlError"
    /\ obj.alive => ~InvalidUrl(obj.lazy_url)

IsMaterialization(op) ==
    \/ op.op = "_load_img"
    \/ op.op = "__getattr__" /\ op.key # "_img"

BothSet(op) == op.image # None /\ op.image_raw # None
ExactlyOneSet(op) == (op.image # None) # (op.image_raw # None)

OneGetThenCached(t) ==
    /\ net[t].gets <= 1
    /\ (pc[t] = "returned" /\ ~pre[t].dest /\ ~pre[t].legacy) =>
            /\ net[t].gets = 1
            /\ out[t].path = dest_path(t)
            /\ Exists(dest_path(t))
    /\ pre[t].dest =>
            /\ net[t].gets = 0
            /\ pc[t] # "raised"
            /\ pc[t] = "returned" => out[t].path = dest_path(t)

LegacyMigrated(t) ==
    (~pre[t].dest /\ pre[t].legacy /\ pc[t] \in {"returned", "raised"}) =>
        /\ pc[t] = "returned"
        /\ out[t].path = dest_path(t)
        /\ Exists(dest_path(t))
        /\ files[dest_path(t)] = LEGACY_BODY
        /\ ~Exists(old_dest_path(t))
        /\ net[t].gets = 0

\* C5 as stated: resolving any url whose destination does not exist and whose
\* legacy file does renames the legacy file to the sanitized name, returns
\* that path and does no GET.
C5_LegacyAnyUrl == \A t \in Threads : Resolving(t) => LegacyMigrated(t)

\* C5, amended: the same of every resolve that the provider's cache did not
\* answer.
C5_LegacyGenericUrl ==
    \A t \in Threads : (Resolving(t) /\ ~Delegated(t)) => LegacyMigrated(t)

\* C5, witness: a resolve that found only the legacy file and returned it
\* under the sanitized name.
C5_Witness ==
    /\ Resolving("t1")
    /\ arg["t1"].url = URL_QUERY
    /\ pc["t1"] = "returned"
    /\ ~pre["t1"].dest
    /\ pre["t1"].legacy
    /\ out["t1"].path = dest_path("t1")
    /\ out["t1"].path # old_dest_path("t1")
    /\ files[dest_path("t1")] = LEGACY_BODY

\* C6: a resolve of a url under https://huggingface.co asks the provider's
\* cache before anything else; when that raises OSError or ValueError the
\* resolve does not raise it but goes on to the generic path, and when it
\* returns it returns the generic destination path, where a file exists.
C6_ProviderFallback ==
    \A t \in Threads : (Resolving(t) /\ StartsWith(arg[t].url, HF_PREFIX)) =>
        /\ pc[t] = "hf" => (loc[t].provider = None /\ net[t].gets = 0)
        /\ pc[t] # "hf" => loc[t].provider # None
        /\ loc[t].provider \in {"OSError", "ValueError"} =>
                /\ pc[t] = "raised" => out[t].exc \notin {"OSError", "ValueError"}
                /\ pc[t] = "returned" =>
                        (out[t].path = dest_path(t) /\ Exists(dest_path(t)))

\* C6, witness: a huggingface url whose provider lookup raised ValueError,
\* downloaded by the generic path.
C6_Witness ==
    /\ Resolving("t1")
    /\ arg["t1"].url = URL_HF
    /\ loc["t1"].provider = "ValueError"
    /\ pc["t1"] = "returned"
    /\ net["t1"].gets = 1
    /\ out["t1"].path = dest_path("t1")

Checking(t) == arg[t].op = "check"
Gated(url) == StartsWith(url, HF_PREFIX_SLASH)

\* C7: check_huggingface_url_authorized sends nothing and returns when the url
\* is not under https://huggingface.co/; otherwise it sends one HEAD, with the
\* bearer header exactly when a token is configured, raises
\* HuggingFaceAuthorizationError on a 401 and returns without error on a 200.
C7_AuthCheck ==
    \A t \in Threads : Checking(t) =>
        /\ ~Gated(arg[t].url) =>
                (net[t].heads = 0 /\ pc[t] = "returned" /\ out[t].exc = None)
        /\ Gated(arg[t].url) =>
                /\ net[t].gets = 0
                /\ net[t].heads = (IF Finished(t) THEN 1 ELSE 0)
                /\ net[t].headers =
                        (IF loc[t].token # None
                         THEN <<"authorization", "Bearer", loc[t].token>> ELSE <<>>)
                /\ (Finished(t) /\ loc[t].status = 401) =>
                        (pc[t] = "raised" /\ out[t].exc = HuggingFaceAuthorizationError)
                /\ (Finished(t) /\ loc[t].status = 200) =>
                        (pc[t] = "returned" /\ out[t].exc = None)

\* C7, witness: a gated url checked without a token and answered 401.
C7_Witness ==
    /\ Checking("t1")
    /\ arg["t1"].url = URL_HF
    /\ loc["t1"].token = None
    /\ loc["t1"].status = 401
    /\ net["t1"].heads = 1
    /\ pc["t1"] = "raised"

\* C9: nothing orders two resolves of one url: whenever a thread completes its
\* write, the destination holds that thread's response, whatever another
\* thread wrote there before (the last write wins).
C9_LastWriteWins ==
    [][\A t \in Threads : (pc[t] = "write" /\ pc'[t] = "returned") =>
            files'[dest_path(t)] = loc[t].resp]_vars

\* C9, witness: both threads found the same destination missing, both did the
\* GET, both wrote, and the file holds the response of the one that wrote
\* last, which differs from the other's.
C9_Witness ==
    /\ Resolving("t1") /\ Resolving("t2")
    /\ arg["t1"] = arg["t2"]
    /\ pc["t1"] = "returned" /\ pc["t2"] = "returned"
    /\ ~pre["t1"].dest /\ ~pre["t2"].dest
    /\ net["t1"].gets = 1 /\ net["t2"].gets = 1
    /\ loc["t1"].resp # loc["t2"].resp
    /\ files[dest_path("t1")] = loc["t2"].resp

\* C10: a resolve whose GET raised has done exactly one GET and left no file
\* at its destination; a destination whose last download failed holds no
\* file, so no resolve is answered from the cache for it.
C10_FailedGet ==
    /\ \A t \in Threads :
        (Resolving(t) /\ pc[t] = "raised" /\ out[t].exc = "ConnectionError") =>
            /\ net[t].gets = 1
            /\ ~Exists(dest_path(t))
            /\ dest_path(t) \in failed
    /\ \A d \in failed : ~Exists(d)

\* C10, witness: after a failed download, a later resolve of the same
\* destination has found no file and stands at the GET again.
C10_Witness ==
    /\ Resolving("t1")
    /\ pc["t1"] = "get"
    /\ net["t1"].gets = 0
    /\ dest_path("t1") \in failed

=============================================================================
